---- MODULE Spec2Model ----
(***************************************************************************)
(* Model of pymodbus.client.tcp.ModbusTcpClient: the synchronous TCP       *)
(* client (connect, close, send, recv, is_socket_open) together with the   *)
(* environment it talks to (the peer, the kernel buffers of the socket,    *)
(* the clock, the transaction manager that sets self.state).               *)
(*                                                                         *)
(* The client is single threaded.  It is suspended only where the code     *)
(* calls select.select (read readiness): the peer and the clock move while *)
(* the client waits there or is between two calls.  What the code does     *)
(* from the return of one select to the next select (or to its return) is  *)
(* one action.                                                             *)
(*                                                                         *)
(* Bytes are small integers.  The peer's byte stream on one connection is  *)
(* 1, 2, 3, ...: the value of a byte is its position in the stream.        *)
(*                                                                         *)
(* The code uses the clock only through differences within one call, so    *)
(* the clock is counted from the start of the call in progress and stands  *)
(* still between calls.  startPos and early are history variables of the   *)
(* recv call in progress or last returned; every other call clears them.   *)
(*                                                                         *)
(* AsyncModbusTcpClient (its constructor and connect) has a specification  *)
(* of its own, SpecAsync.  Its transport, new_transport, is seen through   *)
(* the calls the client makes on it and through reconnect_delay_current.   *)
(* A host string is a sequence of characters.                              *)
(***************************************************************************)
EXTENDS Integers, Sequences, FiniteSets, TLC

\* ---- bounds of the model ----
MaxSockets == 2
MaxOver == 1
MaxStream == 2
MaxReqLen == 2
MaxWire == 2
MaxSize == 2
Timeout == 1
MaxDelay == 2
MaxCalls == 5

\* ---- program constants ----
NoSocket == 0
DefaultRecvSize == 4096
CheckReadSize == 1024
PathStart == 5

\* the clock stops at MaxTime
MaxTime == Timeout + MaxOver

Min(a, b) == IF a < b THEN a ELSE b

\* a request is a byte string; its bytes are 101, 102, ...
Requests == {[i \in 1..n |-> 100 + i] : n \in 0..MaxReqLen}

\* the size argument of recv: None, or an integer
Sizes == {[isNone |-> TRUE, n |-> 0]} \cup {[isNone |-> FALSE, n |-> k] : k \in 0..MaxSize}

NoSize == [isNone |-> FALSE, n |-> 0]

Hosts == {"tcp", "unix"}

TransactionStates == {"IDLE", "RETRYING"}

VARIABLES
    host,        \* params.host: "unix" when it starts with "unix:", else "tcp"
    socket,      \* self.socket: NoSocket (None) or the id of a socket object
    closes,      \* closes[i]: number of socket.close() calls on socket object i
    state,       \* self.state, set by the transaction manager
    pc,          \* where the client is: "idle", "send_select", "recv_select"
    now,         \* the clock, time.time(), counted from the start of the call in progress
    link,        \* the connection of self.socket: "none", "up", "eof", "badfd"
    rxbuf,       \* bytes delivered by the peer and not yet read
    delivered,   \* number of bytes the peer delivered on this connection
    wire,        \* bytes the socket accepted for transmission on this connection
    submitted,   \* concatenation of the requests of the send calls that returned
    request,     \* send: the request of the call in progress
    size,        \* recv: the size argument of the call in progress
    recv_size,   \* recv: local recv_size
    data,        \* recv: local data, a list of chunks
    data_length, \* recv: local data_length
    time_,       \* recv, _check_read_buffer: local time_
    end,         \* recv, _check_read_buffer: local end
    ret,         \* outcome of the last call
    startPos,    \* recv: bytes of the stream consumed before the call
    early        \* recv: bytes of the stream from startPos delivered before end

\* AsyncModbusTcpClient
VARIABLES
    ahost,       \* params.host, a sequence of characters
    aport,       \* params.port
    kwargs,      \* the names of the keyword arguments given to the constructor
    setups,      \* the setup calls made on new_transport, in order
    reconnect_delay,         \* new_transport.comm_params.reconnect_delay
    reconnect_delay_current, \* new_transport.reconnect_delay_current
    apc,         \* "none" (no client), "idle", "connecting" (in await transport_connect)
    calls,       \* the calls made on new_transport after construction, in order
    tret,        \* what the last transport_connect() gave
    aret,        \* what the last connect() returned
    is_active    \* new_transport.is_active()

avars == <<ahost, aport, kwargs, setups, reconnect_delay, reconnect_delay_current,
           apc, calls, tret, aret, is_active>>

svars == <<host, socket, closes, state, pc, now, link, rxbuf, delivered, wire,
           submitted, request, size, recv_size, data, data_length, time_, end,
           ret, startPos, early>>

vars == <<svars, avars>>

conn == <<link, rxbuf, delivered, wire, submitted>>
frame == <<request, size, recv_size, data, data_length, time_, end>>
ghost == <<startPos, early>>

\* ---- outcomes of a call ----
\* op: the call; raised: the exception it raised, or "none"; how: the path it
\* took; arg: its argument; val: the bytes it returned; num: the number (or
\* 1/0 for True/False) it returned, for recv the number of chunks it joined
Ret(op, raised, how, arg, val, num) ==
    [op |-> op, raised |-> raised, how |-> how, arg |-> arg, val |-> val, num |-> num]

\* ---- ModbusTcpClient.connected, is_socket_open ----
connected == socket # NoSocket

is_socket_open == socket # NoSocket

\* ---- socket primitives ----
\* socket.recv(n) on a readable socket: the first n bytes of the buffer
SockRecv(buf, n) == SubSeq(buf, 1, Min(n, Len(buf)))

SockRest(buf, n) == SubSeq(buf, Min(n, Len(buf)) + 1, Len(buf))

\* Join, joining the chunks in the wrong order
RECURSIVE Join_reversed(_)
Join_reversed(chunks) ==
    IF chunks = <<>> THEN <<>> ELSE Join_reversed(Tail(chunks)) \o Head(chunks)

\* b"".join(data)
RECURSIVE Join(_)
Join(chunks) == IF chunks = <<>> THEN <<>> ELSE Head(chunks) \o Join(Tail(chunks))

\* select reports the socket readable: data is buffered or the peer closed
Readable == rxbuf # <<>> \/ link = "eof"

\* the timeout argument of select.select
SelectTimeout == end - time_

\* select returns an empty ready list: nothing readable for the whole timeout
TimedOut == ~Readable /\ now >= time_ + SelectTimeout

\* no AsyncModbusTcpClient was constructed
AsyncAbsent ==
    /\ ahost = <<>>
    /\ aport = 0
    /\ kwargs = {}
    /\ setups = <<>>
    /\ reconnect_delay = 0
    /\ reconnect_delay_current = 0
    /\ apc = "none"
    /\ calls = <<>>
    /\ tret = "none"
    /\ aret = "none"
    /\ is_active = FALSE

InitSync ==
    /\ host \in Hosts
    /\ socket = NoSocket
    /\ closes = <<>>
    /\ state = "IDLE"
    /\ pc = "idle"
    /\ now = 0
    /\ link = "none"
    /\ rxbuf = <<>>
    /\ delivered = 0
    /\ wire = <<>>
    /\ submitted = <<>>
    /\ request = <<>>
    /\ size = NoSize
    /\ recv_size = 0
    /\ data = <<>>
    /\ data_length = 0
    /\ time_ = 0
    /\ end = 0
    /\ ret = Ret("init", "none", "init", <<>>, <<>>, 0)
    /\ startPos = 0
    /\ early = 0

Init == InitSync /\ AsyncAbsent

\* the locals of a call that returned
FrameDone ==
    /\ request' = <<>>
    /\ size' = NoSize
    /\ recv_size' = 0
    /\ data' = <<>>
    /\ data_length' = 0
    /\ time_' = 0
    /\ end' = 0
    /\ now' = 0

\* the kernel's state of a connection that does not exist (any more)
ConnGone ==
    /\ link' = "none"
    /\ rxbuf' = <<>>
    /\ delivered' = 0
    /\ wire' = <<>>
    /\ submitted' = <<>>

\* ---- ModbusTcpClient.close ----
\* close, forgetting self.socket = None
close_keeps_socket(sock, cl) ==
    [socket |-> sock,
     closes |-> IF sock # NoSocket THEN [cl EXCEPT ![sock] = @ + 1] ELSE cl]

\* close, forgetting self.socket.close()
close_leaks_socket(sock, cl) == [socket |-> NoSocket, closes |-> cl]

\* close() on a client whose socket is sock and whose socket objects have
\* been closed cl times: the new self.socket and the new close counts
close(sock, cl) ==
    [socket |-> NoSocket,
     closes |-> IF sock # NoSocket THEN [cl EXCEPT ![sock] = @ + 1] ELSE cl]

Close ==
    /\ pc = "idle"
    /\ socket' = close(socket, closes).socket
    /\ closes' = close(socket, closes).closes
    /\ IF socket' = NoSocket THEN ConnGone ELSE UNCHANGED conn
    /\ ret' = Ret("close", "none", "closed", <<>>, <<>>, 0)
    /\ startPos' = 0 /\ early' = 0
    /\ UNCHANGED <<avars, host, state, pc, now, frame>>

\* ---- ModbusTcpClient.connect ----
\* outcome: "ok", "fail_open" (socket.connect or create_connection raises
\* OSError), "fail_name" (getsockname raises OSError)
ConnectOutcomes == {"ok", "fail_open", "fail_name"}

\* a socket object is assigned to self.socket before the outcome is known
SocketCreated(outcome) == outcome # "fail_open" \/ host = "unix"

Connect(outcome) ==
    /\ pc = "idle"
    /\ IF socket # NoSocket
       THEN /\ ret' = Ret("connect", "none", "already", <<>>, <<>>, 1)
            /\ UNCHANGED <<socket, closes, conn>>
       ELSE /\ Len(closes) < MaxSockets
            /\ LET created == SocketCreated(outcome)
                   sock == IF created THEN Len(closes) + 1 ELSE NoSocket
                   cl == IF created THEN Append(closes, 0) ELSE closes
                   after == IF outcome = "ok"
                            THEN [socket |-> sock, closes |-> cl]
                            ELSE close(sock, cl)
               IN /\ socket' = after.socket
                  /\ closes' = after.closes
                  /\ link' = IF after.socket # NoSocket THEN "up" ELSE "none"
                  /\ ret' = Ret("connect", "none", outcome, <<>>, <<>>,
                                IF after.socket # NoSocket THEN 1 ELSE 0)
            /\ rxbuf' = <<>>
            /\ delivered' = 0
            /\ wire' = <<>>
            /\ submitted' = <<>>
    /\ startPos' = 0 /\ early' = 0
    /\ UNCHANGED <<avars, host, state, pc, now, frame>>

\* ---- ModbusTcpClient.send ----
\* the request is offered to socket.send; the socket accepts k bytes of it
\* (k = 0: socket.send raises OSError)
SocketSend(req, k, how) ==
    /\ IF req # <<>>
       THEN IF k = 0
            THEN /\ ret' = Ret("send", "OSError", how, req, <<>>, 0)
                 /\ UNCHANGED <<wire, submitted>>
            ELSE /\ wire' = wire \o SubSeq(req, 1, k)
                 /\ submitted' = submitted \o req
                 /\ ret' = Ret("send", "none", how, req, <<>>, k)
       ELSE /\ k = 0
            /\ ret' = Ret("send", "none", how, req, <<>>, 0)
            /\ UNCHANGED <<wire, submitted>>

\* what the socket may accept of req: a non-empty prefix, or nothing (OSError)
Accepts(req) == IF link = "badfd" THEN {0} ELSE 0..Len(req)

\* send, connecting by itself when there is no socket
Send_autoconnect(req) ==
    /\ pc = "idle"
    /\ Len(wire) + Len(req) <= MaxWire
    /\ IF socket = NoSocket
       THEN /\ Len(closes) < MaxSockets
            /\ socket' = Len(closes) + 1
            /\ closes' = Append(closes, 0)
            /\ link' = "up"
            /\ \E k \in 0..Len(req) : SocketSend(req, k, "first")
            /\ UNCHANGED <<pc, frame, rxbuf, delivered>>
       ELSE /\ \E k \in Accepts(req) : SocketSend(req, k, "first")
            /\ UNCHANGED <<pc, frame, link, rxbuf, delivered, socket, closes>>
    /\ startPos' = 0 /\ early' = 0
    /\ UNCHANGED <<avars, host, state, now>>

Send(req) ==
    /\ pc = "idle"
    /\ Len(wire) + Len(req) <= MaxWire
    /\ IF socket = NoSocket
       THEN /\ ret' = Ret("send", "ConnectionException", "notconn", req, <<>>, 0)
            /\ UNCHANGED <<pc, frame, conn>>
       ELSE IF state = "RETRYING"
            THEN \* _check_read_buffer: wait in select
                 /\ pc' = "send_select"
                 /\ request' = req
                 /\ time_' = now
                 /\ end' = now + Timeout
                 /\ UNCHANGED <<size, recv_size, data, data_length, conn, ret>>
            ELSE /\ \E k \in Accepts(req) : SocketSend(req, k, "first")
                 /\ UNCHANGED <<pc, frame, link, rxbuf, delivered>>
    /\ startPos' = 0 /\ early' = 0
    /\ UNCHANGED <<avars, host, socket, closes, state, now>>

\* _check_read_buffer, never reading
_check_read_buffer_blind(buf, ready) == <<>>

\* _check_read_buffer, from the return of select: the data it returns
\* (<<>> stands for None and for b"")
_check_read_buffer(buf, ready) == IF ready THEN SockRecv(buf, CheckReadSize) ELSE <<>>

SendSelect ==
    /\ pc = "send_select"
    /\ pc' = "idle"
    /\ FrameDone
    /\ IF link = "badfd"
       THEN \* select raises ValueError
            /\ ret' = Ret("send", "ValueError", "retry", request, <<>>, 0)
            /\ UNCHANGED conn
       ELSE /\ Readable \/ TimedOut
            /\ LET chk == _check_read_buffer(rxbuf, Readable)
               IN IF chk # <<>>
                  THEN /\ ret' = Ret("send", "none", "buffered", request, chk, 0)
                       /\ rxbuf' = IF Readable THEN SockRest(rxbuf, CheckReadSize) ELSE rxbuf
                       /\ submitted' = submitted \o request
                       /\ UNCHANGED <<link, delivered, wire>>
                  ELSE /\ \E k \in Accepts(request) : SocketSend(request, k, "retry")
                       /\ UNCHANGED <<link, rxbuf, delivered>>
    /\ UNCHANGED <<avars, host, socket, closes, state, ghost>>

\* ---- ModbusTcpClient.recv ----
\* _handle_abrupt_socket_close, raising also when data was read
_handle_abrupt_socket_close_raises(sz, d) ==
    /\ socket' = close(socket, closes).socket
    /\ closes' = close(socket, closes).closes
    /\ IF socket' = NoSocket THEN ConnGone ELSE UNCHANGED conn
    /\ ret' = Ret("recv", "ConnectionException", "closed", sz, <<>>, 0)
    /\ pc' = "idle"
    /\ FrameDone

\* _handle_abrupt_socket_close: close, then return the data or raise
_handle_abrupt_socket_close(sz, d) ==
    /\ socket' = close(socket, closes).socket
    /\ closes' = close(socket, closes).closes
    /\ IF socket' = NoSocket THEN ConnGone ELSE UNCHANGED conn
    /\ IF d # <<>>
       THEN ret' = Ret("recv", "none", "closed", sz, Join(d), Len(d))
       ELSE ret' = Ret("recv", "ConnectionException", "closed", sz, <<>>, 0)
    /\ pc' = "idle"
    /\ FrameDone

\* recv_size, never reduced by what was read
NextRecvSize_stale(sz, rs, dl) == rs

\* recv_size for the next read (lines 228-229)
NextRecvSize(sz, rs, dl) == IF ~sz.isNone /\ sz.n # 0 THEN sz.n - dl ELSE rs

\* the deadline check, never leaving the loop
Expired_never(t, e) == FALSE

\* the break at the deadline (line 234)
Expired(t, e) == t > e

\* the end of one iteration: read the clock, update recv_size, leave or loop
LoopCheck(d, dl, buf) ==
    LET t == now
        rs == NextRecvSize(size, recv_size, dl)
    IN /\ rxbuf' = buf
       /\ IF Expired(t, end) \/ rs <= 0
          THEN /\ ret' = Ret("recv", "none", IF Expired(t, end) THEN "expired" ELSE "full",
                             size, Join(d), Len(d))
               /\ pc' = "idle"
               /\ FrameDone
          ELSE /\ data' = d
               /\ data_length' = dl
               /\ recv_size' = rs
               /\ time_' = t
               /\ UNCHANGED <<pc, ret, request, size, end, now>>
       /\ UNCHANGED <<socket, closes, link, delivered, wire, submitted>>

\* recv, without the check for a socket
Recv_unchecked(sz) ==
    /\ pc = "idle"
    /\ startPos' = delivered - Len(rxbuf)
    /\ early' = Len(rxbuf)
    /\ pc' = "recv_select"
    /\ size' = sz
    /\ recv_size' = IF sz.isNone THEN DefaultRecvSize ELSE sz.n
    /\ data' = <<>>
    /\ data_length' = 0
    /\ time_' = now
    /\ end' = now + Timeout
    /\ UNCHANGED <<request, ret>>
    /\ UNCHANGED <<avars, host, socket, closes, state, now, conn>>

Recv(sz) ==
    /\ pc = "idle"
    /\ IF socket = NoSocket
       THEN /\ ret' = Ret("recv", "ConnectionException", "notconn", sz, <<>>, 0)
            /\ UNCHANGED <<pc, frame, ghost>>
       ELSE LET rs == IF sz.isNone THEN DefaultRecvSize ELSE sz.n
            IN /\ startPos' = delivered - Len(rxbuf)
               /\ early' = Len(rxbuf)
               /\ IF rs > 0
                  THEN /\ pc' = "recv_select"
                       /\ size' = sz
                       /\ recv_size' = rs
                       /\ data' = <<>>
                       /\ data_length' = 0
                       /\ time_' = now
                       /\ end' = now + Timeout
                       /\ UNCHANGED <<request, ret>>
                  ELSE /\ ret' = Ret("recv", "none", "zero", sz, Join(<<>>), 0)
                       /\ UNCHANGED <<pc, frame>>
    /\ UNCHANGED <<avars, host, socket, closes, state, now, conn>>

RecvLoop ==
    /\ pc = "recv_select"
    /\ IF link = "badfd"
       THEN \* select raises ValueError
            _handle_abrupt_socket_close(size, data)
       ELSE /\ Readable \/ TimedOut
            /\ IF Readable
               THEN LET recv_data == SockRecv(rxbuf, recv_size)
                    IN IF recv_data = <<>>
                       THEN _handle_abrupt_socket_close(size, data)
                       ELSE LoopCheck(Append(data, recv_data),
                                      data_length + Len(recv_data),
                                      SockRest(rxbuf, recv_size))
               ELSE LoopCheck(data, data_length, rxbuf)
    /\ UNCHANGED <<avars, host, state, ghost>>

\* ---- the environment ----
Tick ==
    /\ pc # "idle"
    /\ now < MaxTime
    /\ now' = now + 1
    /\ UNCHANGED <<avars, host, socket, closes, state, pc, conn, frame, ret, ghost>>

\* one more byte of the peer arrives; bytes that arrive between two reads of
\* the client are read as one chunk
Deliver ==
    /\ link = "up"
    /\ delivered < MaxStream
    /\ rxbuf' = Append(rxbuf, delivered + 1)
    /\ delivered' = delivered + 1
    /\ early' = IF pc = "recv_select" /\ now < end THEN early + 1 ELSE early
    /\ UNCHANGED <<avars, host, socket, closes, state, pc, now, link, wire, submitted,
                   frame, ret, startPos>>

\* the peer closes the connection
PeerClose ==
    /\ link = "up"
    /\ link' = "eof"
    /\ UNCHANGED <<avars, host, socket, closes, state, pc, now, rxbuf, delivered, wire,
                   submitted, frame, ret, ghost>>

\* the descriptor of the socket becomes invalid under the client
DescriptorLost ==
    /\ link \in {"up", "eof"}
    /\ link' = "badfd"
    /\ UNCHANGED <<avars, host, socket, closes, state, pc, now, rxbuf, delivered, wire,
                   submitted, frame, ret, ghost>>

\* the transaction manager moves self.state
SetState(s) ==
    /\ pc = "idle"
    /\ s # state
    /\ state' = s
    /\ UNCHANGED <<avars, host, socket, closes, pc, now, conn, frame, ret, ghost>>

Next ==
    \/ Close
    \/ \E o \in ConnectOutcomes : Connect(o)
    \/ \E r \in Requests : Send(r)
    \/ SendSelect
    \/ \E sz \in Sizes : Recv(sz)
    \/ RecvLoop
    \/ Tick
    \/ Deliver
    \/ PeerClose
    \/ DescriptorLost
    \/ \E s \in TransactionStates : SetState(s)

Spec == Init /\ [][Next]_vars

\* ---- AsyncModbusTcpClient ----
UnixPrefix == <<"u", "n", "i", "x", ":">>

\* the host arguments: unix-domain paths, names, and near misses of "unix:"
AsyncHosts ==
    {UnixPrefix, UnixPrefix \o <<"a">>, <<"h">>, <<"u", "n", "i", "x">>,
     <<"u", "n", "i", "x", "a", ":">>, <<":", "u", "n", "i", "x", ":">>}

Ports == {502, 503}

KwargSets == {{}, {"internal_no_setup"}}

\* str.startswith
StartsWith(str, prefix) ==
    Len(str) >= Len(prefix) /\ SubSeq(str, 1, Len(prefix)) = prefix

\* a call on new_transport with its arguments
Setup(call, args) == [call |-> call, args |-> args]

\* a call on new_transport and reconnect_delay_current after it
Call(call, delay) == [call |-> call, delay |-> delay]

\* AsyncModbusTcpClient.__init__: the setup calls it makes on new_transport
AsyncModbusTcpClient_init(h, p, kw) ==
    IF "internal_no_setup" \in kw
    THEN <<>>
    ELSE IF StartsWith(h, UnixPrefix)
         THEN <<Setup("setup_unix", <<FALSE, SubSeq(h, PathStart + 1, Len(h))>>)>>
         ELSE <<Setup("setup_tcp", <<FALSE, h, p>>)>>

InitAsync ==
    /\ InitSync
    /\ host = "tcp"
    /\ ahost \in AsyncHosts
    /\ aport \in Ports
    /\ kwargs \in KwargSets
    /\ setups = AsyncModbusTcpClient_init(ahost, aport, kwargs)
    /\ reconnect_delay \in 1..MaxDelay
    /\ reconnect_delay_current \in {0, reconnect_delay}
    /\ apc = "idle"
    /\ calls = <<>>
    /\ tret = "none"
    /\ aret = "none"
    /\ is_active = FALSE

\* AsyncModbusTcpClient.connected
async_connected == is_active

\* connect, starting the transport connection without reset_delay()
AsyncConnect_no_reset ==
    /\ apc = "idle"
    /\ Len(calls) + 2 <= MaxCalls
    /\ calls' = Append(calls, Call("transport_connect", reconnect_delay_current))
    /\ apc' = "connecting"
    /\ UNCHANGED <<svars, ahost, aport, kwargs, setups, reconnect_delay,
                   reconnect_delay_current, tret, aret, is_active>>

\* AsyncModbusTcpClient.connect up to its await: reset_delay(), then
\* transport_connect() is started
AsyncConnect ==
    /\ apc = "idle"
    /\ Len(calls) + 2 <= MaxCalls
    /\ LET reset == reconnect_delay
       IN /\ reconnect_delay_current' = reset
          /\ calls' = calls \o <<Call("reset_delay", reset),
                                 Call("transport_connect", reset)>>
    /\ apc' = "connecting"
    /\ UNCHANGED <<svars, ahost, aport, kwargs, setups, reconnect_delay, tret, aret,
                   is_active>>

\* transport_connect() gives res; connect returns it
TransportConnected(res) ==
    /\ apc = "connecting"
    /\ tret' = res
    /\ aret' = res
    /\ is_active' = (res = "True")
    /\ apc' = "idle"
    /\ UNCHANGED <<svars, ahost, aport, kwargs, setups, reconnect_delay,
                   reconnect_delay_current, calls>>

\* close() of the client: reconnect_delay_current is set to 0
AsyncClose ==
    /\ apc # "none"
    /\ Len(calls) < MaxCalls
    /\ reconnect_delay_current' = 0
    /\ calls' = Append(calls, Call("close", 0))
    /\ is_active' = FALSE
    /\ UNCHANGED <<svars, ahost, aport, kwargs, setups, reconnect_delay, apc, tret,
                   aret>>

NextAsync ==
    \/ AsyncConnect
    \/ \E res \in {"True", "False"} : TransportConnected(res)
    \/ AsyncClose

SpecAsync == InitAsync /\ [][NextAsync]_vars

\* ---- properties ----
\* bytes p+1 .. p+n of the peer's stream
Stream(p, n) == [i \in 1..n |-> p + i]

\* a socket object that was opened and not closed exists
HoldsSocket == \E i \in 1..Len(closes) : closes[i] = 0

\* C1 as stated: a send made in state RETRYING with a non-empty request that
\* returns has written bytes of the request to the socket, whatever the read
\* buffer holds.
C1_RetryAlwaysWrites ==
    (ret.op = "send" /\ ret.how \in {"retry", "buffered"} /\ ret.raised = "none"
        /\ ret.arg # <<>>)
    => ret.num > 0

\* C1 amended: when a send made in state RETRYING with a non-empty request
\* returns, then either the read buffer was empty when select returned and a
\* non-empty prefix of the request was appended to the wire (send returns its
\* length), or the read buffer held data, which send returns, and nothing was
\* written.
C1_RetryWritesUnlessBuffered ==
    [][(pc = "send_select" /\ pc' = "idle" /\ request # <<>> /\ ret'.raised = "none")
        => IF rxbuf = <<>>
           THEN /\ ret'.num \in 1..Len(request)
                /\ wire' = wire \o SubSeq(request, 1, ret'.num)
                /\ ret'.val = <<>>
           ELSE /\ wire' = wire
                /\ ret'.num = 0
                /\ ret'.val # <<>>
                /\ ret'.val \o rxbuf' = rxbuf]_vars

C1_Witness ==
    /\ ret.op = "send"
    /\ ret.how = "retry"
    /\ ret.raised = "none"
    /\ ret.arg # <<>>
    /\ ret.num = Len(ret.arg)
    /\ wire = ret.arg

\* C2 as stated: when send, having offered a non-empty request to the socket,
\* returns normally, the socket has accepted all len(request) bytes.
C2_AllBytesAccepted ==
    (ret.op = "send" /\ ret.how \in {"first", "retry"} /\ ret.raised = "none"
        /\ ret.arg # <<>>)
    => ret.num = Len(ret.arg)

\* C3: when recv finds the connection closed by the remote end (select raises
\* ValueError, or the socket is readable and yields b""), the socket object is
\* closed and self.socket is None; if this call had read n > 0 bytes it
\* returns exactly these bytes of the stream in order, else it raises
\* ConnectionException; is_socket_open() is False afterwards.
C3_RemoteClose ==
    [][(pc = "recv_select" /\ pc' = "idle"
            /\ (link = "badfd" \/ (link = "eof" /\ rxbuf = <<>>)))
        => LET n == delivered - Len(rxbuf) - startPos
           IN /\ socket' = NoSocket
              /\ ~is_socket_open'
              /\ closes'[socket] = closes[socket] + 1
              /\ IF n > 0
                 THEN ret'.raised = "none" /\ ret'.val = Stream(startPos, n)
                 ELSE ret'.raised = "ConnectionException"]_vars

C3_Witness ==
    /\ ret.op = "recv"
    /\ ret.how = "closed"
    /\ ret.raised = "none"
    /\ ret.num >= 2
    /\ socket = NoSocket

\* C4: a recv(size) with size > 0 that does not find the connection closed
\* does not raise and returns a prefix of the unread stream of at most size
\* bytes; it returns exactly the first size bytes when the peer delivered
\* them before the deadline, however they were split into chunks; it returns
\* fewer than size bytes only by leaving at the deadline.
C4_Reassembly ==
    (pc = "idle" /\ ret.op = "recv" /\ ~ret.arg.isNone /\ ret.arg.n > 0
        /\ ret.how # "closed" /\ ret.how # "notconn")
    => /\ ret.raised = "none"
       /\ Len(ret.val) <= ret.arg.n
       /\ ret.val = Stream(startPos, Len(ret.val))
       /\ early >= ret.arg.n => Len(ret.val) = ret.arg.n
       /\ Len(ret.val) < ret.arg.n => ret.how = "expired"

C4_Witness ==
    /\ pc = "idle"
    /\ ret.op = "recv"
    /\ ret.how = "full"
    /\ ret.num >= 2
    /\ Len(ret.val) = ret.arg.n
    /\ startPos = 0

\* C5: while recv waits in select, the last clock reading is not past the
\* deadline start + timeout and the timeout given to select is the time that
\* remained at that reading; once the clock is past the deadline the client
\* does not go round the loop again, for any size and whether or not data is
\* ready.
C5_Deadline ==
    /\ [](pc = "recv_select"
            => /\ end = Timeout
               /\ time_ <= end
               /\ SelectTimeout >= 0
               /\ time_ + SelectTimeout <= end)
    /\ [][(pc = "recv_select" /\ now > end /\ pc' = "recv_select")
            => UNCHANGED <<data, data_length, recv_size, time_>>]_vars

C5_Witness ==
    /\ pc = "recv_select"
    /\ size.isNone
    /\ now > end
    /\ rxbuf # <<>>
    /\ data # <<>>

\* C6: self.socket changes from None to a socket only in a step of connect().
C6_NoReconnect ==
    [][(socket = NoSocket /\ socket' # NoSocket)
        => /\ pc = "idle"
           /\ ret'.op = "connect"
           /\ ret'.how = "ok"]_vars

C6_Witness ==
    /\ socket = NoSocket
    /\ ret.how = "notconn"
    /\ \E i \in 1..Len(closes) : closes[i] = 1

\* C7 as stated: the bytes written to the socket on a connection are the
\* concatenation, in call order, of the requests of the send calls that
\* returned.
C7_SubmissionOrder == wire = submitted

\* C8: connected and is_socket_open() agree, and are True exactly when the
\* client holds an open socket object; they are False after construction,
\* after close(), after a failed connect() and after recv found the remote
\* end closed.
C8_Connected ==
    /\ connected = is_socket_open
    /\ connected <=> HoldsSocket
    /\ connected => closes[socket] = 0
    /\ ret.op \in {"init", "close"} => ~connected
    /\ (ret.op = "connect" /\ ret.how \in {"fail_open", "fail_name"}) => ~connected
    /\ (ret.op = "recv" /\ ret.how = "closed") => ~is_socket_open

C8_Witness ==
    /\ ret.op = "recv"
    /\ ret.how = "closed"
    /\ ~connected
    /\ Len(closes) = 1

\* C9: connect() returns True exactly when the client holds a socket on
\* return; called on a connected client it returns True, opens nothing and
\* leaves self.socket alone; when opening fails it returns False, the client
\* holds no socket and every socket object created has been closed.
C9_Connect ==
    /\ [](ret.op = "connect"
            => /\ ret.num = 1 <=> socket # NoSocket
               /\ ret.how = "already" => ret.num = 1
               /\ ret.how = "ok" => ret.num = 1
               /\ ret.how \in {"fail_open", "fail_name"}
                    => /\ ret.num = 0
                       /\ \A i \in 1..Len(closes) : closes[i] = 1)
    /\ [][(ret'.op = "connect" /\ ret'.how = "already")
            => socket' = socket /\ closes' = closes /\ socket # NoSocket]_vars
    /\ [][(ret'.op = "connect" /\ ret' # ret /\ ret'.how = "fail_open")
            => Len(closes') = Len(closes) + (IF host = "unix" THEN 1 ELSE 0)]_vars

C9_Witness ==
    /\ ret.op = "connect"
    /\ ret.how = "fail_open"
    /\ host = "unix"
    /\ closes = <<1, 1>>

\* C10: a send or recv on a client without a socket raises
\* ConnectionException, reads and writes nothing and leaves the client
\* without a socket, for every request, size and transaction state.
C10_NotConnected ==
    [][(socket = NoSocket /\ ret' # ret /\ ret'.op \in {"send", "recv"})
        => /\ ret'.raised = "ConnectionException"
           /\ socket' = NoSocket
           /\ pc' = "idle"
           /\ UNCHANGED <<closes, link, rxbuf, delivered, wire, submitted>>]_vars

C10_Witness ==
    /\ ret.op = "send"
    /\ ret.raised = "ConnectionException"
    /\ ret.arg = <<>>
    /\ state = "RETRYING"
    /\ socket = NoSocket

\* C11: close() leaves the client without a socket; close() on a client
\* without a socket changes neither self.socket, nor any socket object, nor
\* the connection, and raises nothing; no socket object is closed more than
\* once by the client.
C11_CloseIdempotent ==
    /\ [](\A i \in 1..Len(closes) : closes[i] <= 1)
    /\ [](ret.op = "close" => socket = NoSocket /\ ret.raised = "none")
    /\ [][(socket = NoSocket /\ ret'.op = "close")
            => /\ socket' = NoSocket
               /\ ret'.raised = "none"
               /\ UNCHANGED <<closes, pc, link, rxbuf, delivered, wire, submitted>>]_vars
    /\ [][(socket # NoSocket /\ ret'.op = "close")
            => /\ socket' = NoSocket
               /\ closes' = [closes EXCEPT ![socket] = 1]]_vars

C11_Witness ==
    /\ ret.op = "close"
    /\ socket = NoSocket
    /\ closes = <<1, 1>>

IsUnixHost(h) ==
    /\ Len(h) >= 5
    /\ h[1] = "u" /\ h[2] = "n" /\ h[3] = "i" /\ h[4] = "x" /\ h[5] = ":"

\* C13: AsyncModbusTcpClient.connect() calls reset_delay() directly before
\* it starts transport_connect(), so the transport connection starts with
\* reconnect_delay_current reset (not 0), also after close() set it to 0, and
\* connect() returns what transport_connect() gave; the constructor made the
\* only setup call on the transport: setup_unix(False, host[5:]) when host
\* starts with "unix:", setup_tcp(False, host, port) otherwise, none when
\* internal_no_setup is among the keywords.
C13_AsyncConnect ==
    /\ [](apc # "none"
            => /\ "internal_no_setup" \in kwargs => setups = <<>>
               /\ ("internal_no_setup" \notin kwargs /\ IsUnixHost(ahost))
                    => /\ Len(setups) = 1
                       /\ setups[1].call = "setup_unix"
                       /\ setups[1].args
                            = <<FALSE, [i \in 1..(Len(ahost) - 5) |-> ahost[i + 5]]>>
               /\ ("internal_no_setup" \notin kwargs /\ ~IsUnixHost(ahost))
                    => setups = <<[call |-> "setup_tcp", args |-> <<FALSE, ahost, aport>>]>>)
    /\ [](\A i \in 1..Len(calls) :
            calls[i].call = "transport_connect"
                => /\ i > 1
                   /\ calls[i - 1].call = "reset_delay"
                   /\ calls[i].delay = reconnect_delay
                   /\ calls[i].delay > 0)
    /\ [][(apc = "idle" /\ apc' = "connecting")
            => reconnect_delay_current' = reconnect_delay]_vars
    /\ [][(apc = "connecting" /\ apc' = "idle") => aret' = tret' /\ aret' # "none"]_vars
    /\ [][setups' = setups]_vars

C13_Witness ==
    /\ apc = "idle"
    /\ Len(calls) = 5
    /\ calls[3].call = "close"
    /\ calls[5].call = "transport_connect"
    /\ aret = "True"
    /\ setups # <<>>
    /\ setups[1] = [call |-> "setup_unix", args |-> <<FALSE, <<"a">>>>]
====
